---------------------------- MODULE Spec2Model ----------------------------
(***************************************************************************)
(* Model of scripts/telegraph.py: the Markdown -> Telegraph node           *)
(* conversion (block segmenter, inline tokenizer), the size partitioner,   *)
(* the navigation linker and the two-phase publish orchestrator.           *)
(*                                                                         *)
(* A Python str is a sequence of one-character strings wherever the code   *)
(* looks at its characters (the segmenter, the inline tokenizer), and a    *)
(* TLA+ string where the code only measures, concatenates and compares it  *)
(* (node texts of the partitioner and the orchestrator).  Len gives the    *)
(* length of both.  A Telegraph node is a record holding the keys of the   *)
(* Python dict; a bare str child is the record Text(s).                    *)
(***************************************************************************)
EXTENDS Integers, Sequences, FiniteSets, TLC

VARIABLES
    \* _split_blocks (telegraph.py 210-249)
    lines,            \* text.split("\n")
    line_no,          \* number of lines the for loop has consumed
    blocks,
    current_block,
    in_code_block,
    code_fence,
    sb_pc,            \* "idle" | "loop" | "done"
    \* split_content_for_publishing (telegraph.py 532-564)
    content,          \* the Document: a sequence of top-level nodes
    max_size,
    parts,            \* the chunks returned
    sp_pc,            \* "idle" | "call" | "done"
    \* _parse_inline (telegraph.py 417-480)
    inline_text,      \* the argument text
    remaining,
    result,
    pi_pc,            \* "idle" | "scan" | "clean" | "done"
    \* cmd_publish (telegraph.py 648-750) and the Telegraph service
    token,            \* args.token or get_telegraph_token(); "" when missing
    file_state,       \* "ok" | "missing" | "unreadable": what open/read does
    pc,               \* "idle" | "start" | "single" | "create" | "link" | "edit" | "exit"
    part_i,           \* the loop variable i: index of the chunk the running loop is at
    urls,
    paths,
    parts_with_nav,
    pages,            \* the pages the service holds, in creation order
    calls,            \* the requests sent to the service, in order
    stdout,           \* the JSON objects printed
    exit_code,        \* -1 while running
    \* MarkdownToTelegraphConverter.convert (telegraph.py 193-208)
    md_lines,         \* the lines of the markdown argument
    cv_blocks,        \* blocks, as _split_blocks returned them
    cv_i,             \* number of blocks the for loop has consumed
    nodes,            \* self.nodes
    cv_pc,            \* "idle" | "split" | "blocks" | "done"
    \* callers of markdown_to_nodes and convert (telegraph.py 190-208, 516-519)
    lists,            \* the list objects made so far; a list is known by its index
    converters,       \* the converter objects made so far: which list self.nodes is
    callers,          \* per thread: its converter, its argument, its place in convert
    returned          \* the calls that returned: by whom, on which converter, for
                      \* which text, with which list

segVars == <<lines, line_no, blocks, current_block, in_code_block, code_fence, sb_pc>>

partVars == <<content, max_size, parts, sp_pc>>

inlVars == <<inline_text, remaining, result, pi_pc>>

pubVars == <<token, file_state, pc, part_i, urls, paths, parts_with_nav, pages, calls,
             stdout, exit_code>>

cvVars == <<md_lines, cv_blocks, cv_i, nodes, cv_pc>>

callVars == <<lists, converters, callers, returned>>

vars == <<segVars, partVars, inlVars, pubVars, cvVars, callVars>>

\* what the actions of one operation leave alone
segOthers == <<partVars, inlVars, pubVars, cvVars, callVars>>
partOthers == <<segVars, inlVars, pubVars, cvVars, callVars>>
inlOthers == <<segVars, partVars, pubVars, cvVars, callVars>>
pubOthers == <<segVars, inlVars, max_size, sp_pc, cvVars, callVars>>
cvOthers == <<segVars, partVars, inlVars, pubVars, callVars>>
callOthers == <<segVars, partVars, inlVars, pubVars, cvVars>>

----------------------------------------------------------------------------
(* Bounds of the model *)

MaxLines == 4

\* the Documents given to the partitioner hold at most MaxNodes nodes
MaxNodes == 4

\* the partitioner is run with every budget 0..MaxBudget
MaxBudget == 80

\* the inline tokenizer is run on every text of at most MaxInlineLen
\* characters of InlineAlphabet, and on InlineSamples
MaxInlineLen == 5

\* convert is run on every markdown text of at most MaxMdLines lines of
\* MdLinePool, and on MdSamples
MaxMdLines == 3

\* the Documents published hold at most MaxDocNodes nodes
MaxDocNodes == 3

\* the length of the long texts of the published Documents
BigTextLen == 32768

\* the threads make at most MaxCalls calls of convert, all together
MaxCalls == 3

----------------------------------------------------------------------------
(* str helpers over sequences of characters *)

Rep(c, n) == [i \in 1..n |-> c]

Whitespace == {" ", "\t"}

\* the characters of the model's inputs that the pattern class \w accepts
WordChars == {"a", "b", "c", "h", "p", "q", "u", "x", "y", "1", "_"}

\* str.strip(): drop the whitespace at both ends
RECURSIVE LStrip(_)
LStrip(s) == IF s # <<>> /\ Head(s) \in Whitespace THEN LStrip(Tail(s)) ELSE s

RECURSIVE RStrip(_)
RStrip(s) ==
    IF s # <<>> /\ s[Len(s)] \in Whitespace THEN RStrip(SubSeq(s, 1, Len(s) - 1)) ELSE s

Strip(s) == RStrip(LStrip(s))

\* length of the run of character c at the start of s
RECURSIVE RunLen(_, _)
RunLen(s, c) == IF s # <<>> /\ Head(s) = c THEN 1 + RunLen(Tail(s), c) ELSE 0

\* s.startswith(p)
StartsWith(s, p) == Len(s) >= Len(p) /\ SubSeq(s, 1, Len(p)) = p

\* "\n".join(ls)
RECURSIVE JoinLines(_)
JoinLines(ls) ==
    IF ls = <<>> THEN <<>>
    ELSE IF Len(ls) = 1 THEN ls[1]
    ELSE ls[1] \o <<"\n">> \o JoinLines(Tail(ls))

----------------------------------------------------------------------------
(* Block segmenter: MarkdownToTelegraphConverter._split_blocks *)

\* the grave accent U+0060 (a TLA+ string cannot hold it)
Backtick == "BACKTICK"

FenceChars == {Backtick, "~"}

\* re.match of the fence pattern of line 221 on t: a run of three or more of
\* one fence character, then only word characters up to the end of the line.
FenceMatch(t) ==
    /\ t # <<>>
    /\ t[1] \in FenceChars
    /\ RunLen(t, t[1]) >= 3
    /\ \A i \in (RunLen(t, t[1]) + 1)..Len(t) : t[i] \in WordChars

\* fence_match.group(1)[0], a str of one character
FenceGroupChar(t) == <<t[1]>>

\* s * n
RECURSIVE StrMul(_, _)
StrMul(s, n) == IF n <= 0 THEN <<>> ELSE s \o StrMul(s, n - 1)

\* the end-of-code-block test of lines 234-235 on the stripped line t:
\* startswith(code_fence * 3), t == code_fence * len(t), and the pattern
\* "code_fence, three times or more, and nothing else"
ClosesFence(t, fence) ==
    /\ StartsWith(t, StrMul(fence, 3))
    /\ t = StrMul(fence, Len(t))
    /\ Len(t) >= 3 /\ \A i \in 1..Len(t) : <<t[i]>> = fence

\* the state the loop of _split_blocks carries from line to line
SplitState(b, cur, inb, f) ==
    [blocks |-> b, current_block |-> cur, in_code_block |-> inb, code_fence |-> f]

\* mutant: the blank-line branch is tried before the inside-fence branch
SplitStepBlankFirst(st, line) ==
    LET t == Strip(line) IN
    IF FenceMatch(t) /\ ~st.in_code_block THEN
        SplitState(
            IF st.current_block # <<>>
                THEN Append(st.blocks, JoinLines(st.current_block)) ELSE st.blocks,
            <<line>>, TRUE, FenceGroupChar(t))
    ELSE IF t = <<>> THEN
        IF st.current_block # <<>>
            THEN SplitState(Append(st.blocks, JoinLines(st.current_block)), <<>>,
                            st.in_code_block, st.code_fence)
            ELSE st
    ELSE IF st.in_code_block THEN
        IF ClosesFence(t, st.code_fence)
            THEN SplitState(Append(st.blocks, JoinLines(Append(st.current_block, line))),
                            <<>>, FALSE, st.code_fence)
            ELSE SplitState(st.blocks, Append(st.current_block, line), TRUE, st.code_fence)
    ELSE SplitState(st.blocks, Append(st.current_block, line),
                    st.in_code_block, st.code_fence)

\* mutant: the closing fence line ends the block without being put in it
SplitStepDropsClosing(st, line) ==
    LET t == Strip(line) IN
    IF FenceMatch(t) /\ ~st.in_code_block THEN
        SplitState(
            IF st.current_block # <<>>
                THEN Append(st.blocks, JoinLines(st.current_block)) ELSE st.blocks,
            <<line>>, TRUE, FenceGroupChar(t))
    ELSE IF st.in_code_block THEN
        IF ClosesFence(t, st.code_fence)
            THEN SplitState(Append(st.blocks, JoinLines(st.current_block)),
                            <<>>, FALSE, st.code_fence)
            ELSE SplitState(st.blocks, Append(st.current_block, line), TRUE, st.code_fence)
    ELSE IF t = <<>> THEN
        IF st.current_block # <<>>
            THEN SplitState(Append(st.blocks, JoinLines(st.current_block)), <<>>,
                            st.in_code_block, st.code_fence)
            ELSE st
    ELSE SplitState(st.blocks, Append(st.current_block, line),
                    st.in_code_block, st.code_fence)

\* one iteration of "for line in lines" (lines 219-244)
SplitStep(st, line) ==
    LET t == Strip(line) IN
    IF FenceMatch(t) /\ ~st.in_code_block THEN
        \* start code block
        SplitState(
            IF st.current_block # <<>>
                THEN Append(st.blocks, JoinLines(st.current_block)) ELSE st.blocks,
            <<line>>, TRUE, FenceGroupChar(t))
    ELSE IF st.in_code_block THEN
        IF ClosesFence(t, st.code_fence)
            THEN SplitState(Append(st.blocks, JoinLines(Append(st.current_block, line))),
                            <<>>, FALSE, st.code_fence)
            ELSE SplitState(st.blocks, Append(st.current_block, line), TRUE, st.code_fence)
    ELSE IF t = <<>> THEN
        IF st.current_block # <<>>
            THEN SplitState(Append(st.blocks, JoinLines(st.current_block)), <<>>,
                            st.in_code_block, st.code_fence)
            ELSE st
    ELSE SplitState(st.blocks, Append(st.current_block, line),
                    st.in_code_block, st.code_fence)

\* the lines the segmenter is run on
LinePool ==
    { <<>>,
      Rep(Backtick, 3),
      Rep(Backtick, 4),
      Rep("~", 3),
      Rep(Backtick, 3) \o <<"p", "y">>,
      Rep(Backtick, 3) \o <<" ", "x">>,
      <<"#", " ", "h">>,
      <<"-", " ", "x">>,
      <<">", " ", "q">>,
      <<"a">> }

LineSeqs == UNION { [1..n -> LinePool] : n \in 1..MaxLines }

SegIdle ==
    /\ lines = <<>> /\ line_no = 0 /\ blocks = <<>> /\ current_block = <<>>
    /\ in_code_block = FALSE /\ code_fence = <<>> /\ sb_pc = "idle"

\* entry of _split_blocks (lines 212-217) on any line sequence
SegInit ==
    /\ lines \in LineSeqs
    /\ line_no = 0
    /\ blocks = <<>>
    /\ current_block = <<>>
    /\ in_code_block = FALSE
    /\ code_fence = <<>>
    /\ sb_pc = "loop"

SplitLine ==
    /\ sb_pc = "loop"
    /\ line_no < Len(lines)
    /\ LET st == SplitStep(SplitState(blocks, current_block, in_code_block, code_fence),
                           lines[line_no + 1])
       IN /\ blocks' = st.blocks
          /\ current_block' = st.current_block
          /\ in_code_block' = st.in_code_block
          /\ code_fence' = st.code_fence
    /\ line_no' = line_no + 1
    /\ UNCHANGED <<lines, sb_pc>>
    /\ UNCHANGED segOthers

\* after the loop (lines 246-249): flush the open block and return
SplitReturn ==
    /\ sb_pc = "loop"
    /\ line_no = Len(lines)
    /\ blocks' = IF current_block # <<>>
                    THEN Append(blocks, JoinLines(current_block)) ELSE blocks
    /\ sb_pc' = "done"
    /\ UNCHANGED <<lines, line_no, current_block, in_code_block, code_fence>>
    /\ UNCHANGED segOthers

SegNext == SplitLine \/ SplitReturn

----------------------------------------------------------------------------
(* Telegraph nodes and their JSON size *)

\* a bare str in a children list
Text(s) == [tag |-> "#text", text |-> s]

\* the bare str s * n, held as s and n
TextTimes(s, n) == [tag |-> "#text", text |-> s, times |-> n]

\* {"tag": tag, "children": children}
El(tag, children) == [tag |-> tag, children |-> children]

\* {"tag": "hr"}
Hr == [tag |-> "hr"]

\* len(s.encode("utf-8")) of json.dumps(s, ensure_ascii=False) for a str of
\* one-byte characters none of which JSON escapes: the text and two quotes
JsonStrSize(s) == Len(s) + 2

RECURSIVE SumSeq(_)
SumSeq(ns) == IF ns = <<>> THEN 0 ELSE Head(ns) + SumSeq(Tail(ns))

\* a JSON list: brackets, the items, ", " between consecutive items
JsonListSize(sizes) ==
    IF sizes = <<>> THEN 2 ELSE 2 + SumSeq(sizes) + 2 * (Len(sizes) - 1)

\* a JSON object of str values: braces, "key": value pairs, ", " between them
RECURSIVE JsonAttrsBody(_, _)
JsonAttrsBody(attrs, keys) ==
    IF keys = {} THEN 0
    ELSE LET k == CHOOSE x \in keys : TRUE
         IN Len(k) + 2 + 2 + JsonStrSize(attrs[k])
            + (IF keys = {k} THEN 0 ELSE 2 + JsonAttrsBody(attrs, keys \ {k}))

JsonAttrsSize(attrs) == 2 + JsonAttrsBody(attrs, DOMAIN attrs)

\* len(json.dumps(node, ensure_ascii=False).encode("utf-8")): the keys of a
\* node dict are written in the order tag, attrs, children
RECURSIVE JsonSize(_)
JsonSize(node) ==
    IF node.tag = "#text"
        THEN IF "times" \in DOMAIN node
                THEN Len(node.text) * node.times + 2
                ELSE JsonStrSize(node.text)
    ELSE 1 + 5 + 2 + JsonStrSize(node.tag)
         + (IF "attrs" \in DOMAIN node
               THEN 2 + 7 + 2 + JsonAttrsSize(node.attrs) ELSE 0)
         + (IF "children" \in DOMAIN node
               THEN 2 + 10 + 2
                    + JsonListSize([i \in 1..Len(node.children) |->
                                        JsonSize(node.children[i])])
               ELSE 0)
         + 1

\* estimate_content_size (lines 527-529)
estimate_content_size(c) == JsonListSize([i \in 1..Len(c) |-> JsonSize(c[i])])

----------------------------------------------------------------------------
(* Size partitioner: split_content_for_publishing *)

\* mutant: the separator is not counted
NodeSizeNoComma(node) == JsonSize(node)

\* node_size of line 550: the serialized node "+1 for comma"
NodeSize(node) == JsonSize(node) + 1

PartState(ps, cur, size) == [parts |-> ps, current_part |-> cur, current_size |-> size]

\* mutant: the running size alone decides whether a new chunk is started
PartStepLateFlush(st, node, budget) ==
    LET node_size == NodeSize(node)
        fresh == st.current_size > budget /\ st.current_part # <<>>
        ps == IF fresh THEN Append(st.parts, st.current_part) ELSE st.parts
        cur == IF fresh THEN <<>> ELSE st.current_part
        size == IF fresh THEN 2 ELSE st.current_size
    IN PartState(ps, Append(cur, node), size + node_size)

\* one iteration of "for node in content" (lines 549-559)
PartStep(st, node, budget) ==
    LET node_size == NodeSize(node)
        fresh == st.current_size + node_size > budget /\ st.current_part # <<>>
        ps == IF fresh THEN Append(st.parts, st.current_part) ELSE st.parts
        cur == IF fresh THEN <<>> ELSE st.current_part
        size == IF fresh THEN 2 ELSE st.current_size
    IN PartState(ps, Append(cur, node), size + node_size)

RECURSIVE PartLoop(_, _, _)
PartLoop(st, rest, budget) ==
    IF rest = <<>> THEN st ELSE PartLoop(PartStep(st, Head(rest), budget), Tail(rest), budget)

\* mutant: the chunk still open when the loop ends is not returned
PartFlushDropsLast(st) == st.parts

\* lines 561-564
PartFlush(st) ==
    IF st.current_part # <<>> THEN Append(st.parts, st.current_part) ELSE st.parts

split_content_for_publishing(c, budget) ==
    IF estimate_content_size(c) <= budget
        THEN <<c>>
        ELSE PartFlush(PartLoop(PartState(<<>>, <<>>, 2), c, budget))

\* the top-level nodes the partitioner is run on
NodePool ==
    { Hr,
      El("p", <<Text("a")>>),
      El("h3", <<Text("bb")>>),
      El("p", <<El("b", <<Text("c")>>), Text("dd")>>) }

Documents == UNION { [1..n -> NodePool] : n \in 0..MaxNodes }

PartIdle == content = <<>> /\ max_size = 0 /\ parts = <<>> /\ sp_pc = "idle"

PartInit ==
    /\ content \in Documents
    /\ max_size \in 0..MaxBudget
    /\ parts = <<>>
    /\ sp_pc = "call"

Partition ==
    /\ sp_pc = "call"
    /\ parts' = split_content_for_publishing(content, max_size)
    /\ sp_pc' = "done"
    /\ UNCHANGED <<content, max_size>>
    /\ UNCHANGED partOthers

PartNext == Partition

----------------------------------------------------------------------------
(* Inline tokenizer: MarkdownToTelegraphConverter._parse_inline *)

\* the least element of a set of indices, 0 for the empty set
MinOrZero(hits) == IF hits = {} THEN 0 ELSE CHOOSE i \in hits : \A j \in hits : i <= j

\* the smallest index i >= from with s[i] = c, 0 when there is none
FirstIdx(s, from, c) == MinOrZero({ i \in from..Len(s) : s[i] = c })

CharAt(s, i) == IF i \in 1..Len(s) THEN s[i] ELSE ""

NoMatch == [ok |-> FALSE, start |-> 0, end |-> 0, g1 |-> <<>>, g2 |-> <<>>]

Match(p, e, a, b) == [ok |-> TRUE, start |-> p, end |-> e, g1 |-> a, g2 |-> b]

\* "[" at p, "]" at q, ")" at r (q, r = 0 when there is none): a bracketed
\* text of at least minText characters and a parenthesised target of at least
\* one character; start is where the whole match starts
BracketParen(s, start, p, minText, q, r) ==
    IF /\ CharAt(s, p) = "["
       /\ q # 0 /\ q - (p + 1) >= minText
       /\ CharAt(s, q + 1) = "("
       /\ r # 0 /\ r > q + 2
    THEN Match(start, r, SubSeq(s, p + 1, q - 1), SubSeq(s, q + 2, r - 1))
    ELSE NoMatch

\* the text runs to the first "]", the target from two characters after it
\* to the first ")": the classes [^\]] and [^)] stop nowhere else
BracketParenTo(s, start, p, minText, q) ==
    BracketParen(s, start, p, minText, q, FirstIdx(s, q + 2, ")"))

BracketParenAt(s, start, p, minText) ==
    BracketParenTo(s, start, p, minText, FirstIdx(s, p + 1, "]"))

\* image pattern (line 424) at index p
ImageAt(s, p) == IF CharAt(s, p) = "!" THEN BracketParenAt(s, p, p + 1, 0) ELSE NoMatch

\* link pattern (line 426) at index p
LinkAt(s, p) == BracketParenAt(s, p, p, 1)

\* the delimiter d twice at p, one or more characters other than d, then d
\* twice at q
BoldTo(s, p, d, q) ==
    IF /\ CharAt(s, p) = d /\ CharAt(s, p + 1) = d
       /\ q # 0 /\ q > p + 2
       /\ CharAt(s, q + 1) = d
    THEN Match(p, q + 1, SubSeq(s, p + 2, q - 1), <<>>)
    ELSE NoMatch

\* bold patterns (lines 428-429) at index p
BoldAt(s, p, d) == BoldTo(s, p, d, FirstIdx(s, p + 2, d))

\* the delimiter d at p and at q, neither after nor before a d or a word
\* character, around one or more characters other than d
ItalicTo(s, p, d, q) ==
    IF /\ CharAt(s, p) = d
       /\ CharAt(s, p - 1) \notin ({d} \cup WordChars)
       /\ q # 0 /\ q > p + 1
       /\ CharAt(s, q + 1) \notin ({d} \cup WordChars)
    THEN Match(p, q, SubSeq(s, p + 1, q - 1), <<>>)
    ELSE NoMatch

\* italic patterns (lines 431-432) at index p
ItalicAt(s, p, d) == ItalicTo(s, p, d, FirstIdx(s, p + 1, d))

CodeTo(s, p, q) ==
    IF CharAt(s, p) = Backtick /\ q # 0 /\ q > p + 1
    THEN Match(p, q, SubSeq(s, p + 1, q - 1), <<>>)
    ELSE NoMatch

\* inline code pattern (line 434) at index p
CodeAt(s, p) == CodeTo(s, p, FirstIdx(s, p + 1, Backtick))

\* the handlers in the order of the list "patterns" (lines 422-435)
Handlers == <<"image", "link", "bold", "bold", "italic", "italic", "code">>

PatternAt(k, s, p) ==
    CASE k = 1 -> ImageAt(s, p)
      [] k = 2 -> LinkAt(s, p)
      [] k = 3 -> BoldAt(s, p, "*")
      [] k = 4 -> BoldAt(s, p, "_")
      [] k = 5 -> ItalicAt(s, p, "*")
      [] k = 6 -> ItalicAt(s, p, "_")
      [] k = 7 -> CodeAt(s, p)

\* the match at the leftmost index that has one
LeftmostOf(at) ==
    IF \A p \in DOMAIN at : ~at[p].ok THEN NoMatch
    ELSE at[CHOOSE p \in DOMAIN at : at[p].ok /\ \A q \in DOMAIN at : at[q].ok => p <= q]

\* re.search(pattern k, s)
Search(k, s) == LeftmostOf([p \in 1..Len(s) |-> PatternAt(k, s, p)])

\* re.search of every pattern of the list on s
SearchAll(s) == [k \in 1..Len(Handlers) |-> Search(k, s)]

\* lines 441-450: the first pattern, in list order, among those whose match
\* starts earliest; 0 when no pattern matches
EarliestPattern(found) ==
    IF \A k \in DOMAIN found : ~found[k].ok THEN 0
    ELSE CHOOSE k \in DOMAIN found :
            /\ found[k].ok
            /\ \A j \in DOMAIN found :
                 found[j].ok => \/ found[k].start < found[j].start
                                \/ found[k].start = found[j].start /\ k <= j

\* lines 471-478 for one item
CleanItem(cleaned, item) ==
    IF item.tag = "#text"
       THEN IF cleaned # <<>> /\ cleaned[Len(cleaned)].tag = "#text"
               THEN [cleaned EXCEPT ![Len(cleaned)] =
                        Text(cleaned[Len(cleaned)].text \o item.text)]
            ELSE IF item.text # <<>> THEN Append(cleaned, item)
            ELSE cleaned
       ELSE Append(cleaned, item)

\* lines 469-478: merge adjacent strs, drop empty ones
RECURSIVE CleanUp(_, _)
CleanUp(items, cleaned) ==
    IF items = <<>> THEN cleaned
    ELSE CleanUp(Tail(items), CleanItem(cleaned, Head(items)))

\* mutant: the cleaned list is returned as it is, empty or not
OrEmptyTextNone(cleaned) == cleaned

\* line 480
OrEmptyText(cleaned) == IF cleaned # <<>> THEN cleaned ELSE <<Text(<<>>)>>

CleanedOrEmpty(items) == OrEmptyText(CleanUp(items, <<>>))

\* mutant: the alt attribute is set whatever the alt text
HandleImageAlwaysAlt(m) == [tag |-> "img", attrs |-> [src |-> m.g2, alt |-> m.g1]]

\* _handle_image (lines 482-489)
HandleImage(m) ==
    IF m.g1 # <<>>
        THEN [tag |-> "img", attrs |-> [src |-> m.g2, alt |-> m.g1]]
        ELSE [tag |-> "img", attrs |-> [src |-> m.g2]]

\* _handle_link (lines 491-495)
HandleLink(m) == [tag |-> "a", attrs |-> [href |-> m.g2], children |-> <<Text(m.g1)>>]

\* _handle_code (lines 510-513)
HandleCode(m) == El("code", <<Text(m.g1)>>)

\* matched_handler(earliest_match); _handle_bold (lines 497-502) and
\* _handle_italic (lines 504-508) tokenize the inner text with a nested
\* _parse_inline call
RECURSIVE ParseNested(_)

Handle(k, m) ==
    CASE Handlers[k] = "image" -> HandleImage(m)
      [] Handlers[k] = "link" -> HandleLink(m)
      [] Handlers[k] \in {"bold", "italic"} ->
            El(IF Handlers[k] = "bold" THEN "b" ELSE "i", ParseNested(m.g1))
      [] Handlers[k] = "code" -> HandleCode(m)

\* lines 452-467 for pattern k with match m, k = 0 when nothing matched
ScanWith(rest, res, k, m) ==
    IF k # 0
       THEN [remaining |-> SubSeq(rest, m.end + 1, Len(rest)),
             result |-> Append(IF m.start > 1
                                  THEN Append(res, Text(SubSeq(rest, 1, m.start - 1)))
                                  ELSE res,
                               Handle(k, m)),
             again |-> TRUE]
       ELSE [remaining |-> rest, result |-> Append(res, Text(rest)), again |-> FALSE]

ScanFound(rest, res, found, k) ==
    ScanWith(rest, res, k, IF k # 0 THEN found[k] ELSE NoMatch)

ScanAmong(rest, res, found) ==
    ScanFound(rest, res, found, EarliestPattern(found))

\* one iteration of "while remaining" (lines 440-467) on a non-empty rest:
\* the new rest, the new result, and whether the loop goes on
ScanStep(rest, res) == ScanAmong(rest, res, SearchAll(rest))

RECURSIVE ParseFrom(_, _)

\* the loop after an iteration that gave st
ParseOn(st) ==
    IF st.again THEN ParseFrom(st.remaining, st.result) ELSE CleanedOrEmpty(st.result)

\* a nested _parse_inline call starts with the loop state (text, [])
ParseNested(text) == ParseFrom(text, <<>>)

\* _parse_inline from the state (rest, res) of its loop on: the loop, then
\* the clean-up
ParseFrom(rest, res) ==
    IF rest = <<>> THEN CleanedOrEmpty(res)
    ELSE ParseOn(ScanStep(rest, res))

ParseInline(text) == ParseFrom(text, <<>>)

\* mutant: the iteration leaves the rest as it was
ScanOnceKeepsRest(rest, res) == [ScanStep(rest, res) EXCEPT !.remaining = rest]

\* the loop state after one iteration from (rest, res)
ScanOnce(rest, res) == ScanStep(rest, res)

InlineAlphabet == {"*", "_", "a", " "}

\* '**a *b* c**', '**a _b_ c**', '![a](u)', '![](u)', '![*a*](u)', '[a](u)',
\* '[*a*](u)', '[**b**](u)', and the
\* inline code span of a
InlineSamples ==
    { <<"*", "*", "a", " ", "*", "b", "*", " ", "c", "*", "*">>,
      <<"*", "*", "a", " ", "_", "b", "_", " ", "c", "*", "*">>,
      <<"!", "[", "a", "]", "(", "u", ")">>,
      <<"!", "[", "]", "(", "u", ")">>,
      <<"!", "[", "*", "a", "*", "]", "(", "u", ")">>,
      <<"[", "a", "]", "(", "u", ")">>,
      <<"[", "*", "a", "*", "]", "(", "u", ")">>,
      <<"[", "*", "*", "b", "*", "*", "]", "(", "u", ")">>,
      <<Backtick, "a", Backtick>> }

InlineTexts == InlineSamples \cup UNION { [1..n -> InlineAlphabet] : n \in 0..MaxInlineLen }

InlIdle == inline_text = <<>> /\ remaining = <<>> /\ result = <<>> /\ pi_pc = "idle"

\* entry of _parse_inline (lines 419, 438)
InlInit ==
    /\ inline_text \in InlineTexts
    /\ remaining = inline_text
    /\ result = <<>>
    /\ pi_pc = "scan"

\* one iteration of the scanning loop
InlineScan ==
    /\ pi_pc = "scan"
    /\ remaining # <<>>
    /\ remaining' = ScanOnce(remaining, result).remaining
    /\ result' = ScanOnce(remaining, result).result
    /\ pi_pc' = IF ScanOnce(remaining, result).again THEN "scan" ELSE "clean"
    /\ UNCHANGED inline_text
    /\ UNCHANGED inlOthers

\* the loop has ended: clean up and return (lines 469-480)
InlineReturn ==
    /\ \/ pi_pc = "clean"
       \/ pi_pc = "scan" /\ remaining = <<>>
    /\ result' = CleanedOrEmpty(result)
    /\ pi_pc' = "done"
    /\ UNCHANGED <<inline_text, remaining>>
    /\ UNCHANGED inlOthers

InlNext == InlineScan \/ InlineReturn

----------------------------------------------------------------------------
(* Navigation linker: add_navigation_links *)

\* The labels of lines 580-600 are Russian; a TLA+ string holds ASCII only,
\* so each is written transliterated.
\* f"Chast' {i + 1} iz {len(parts)}" (line 580), idx counted from 0
PartLabel(idx, n) == "Chast' " \o ToString(idx + 1) \o " iz " \o ToString(n)

\* "<- Nazad" (line 589)
BackLabel == "<- Nazad"

\* f"{title} (nachalo)" (line 594)
StartLabel(title) == title \o " (nachalo)"

\* "Dalee ->" (line 600)
NextLabel == "Dalee ->"

NavSeparator == " | "

\* {"tag": "a", "attrs": {"href": href}, "children": [label]}
Link(href, label) == [tag |-> "a", attrs |-> [href |-> href], children |-> <<Text(label)>>]

\* mutant: the start link is put in front of the back link
NavChildrenStartFirst(idx, n, us, title) ==
    <<Link(us[1], StartLabel(title))>>
    \o (IF idx > 0 THEN <<Text(NavSeparator), Link(us[idx], BackLabel)>> ELSE <<>>)
    \o (IF idx < n - 1
           THEN <<Text(NavSeparator), Link(us[idx + 2], NextLabel)>> ELSE <<>>)

\* nav_children of chunk idx (counted from 0) of n (lines 585-601); the
\* Python list urls[0..n-1] is the sequence us[1..n]
NavChildren(idx, n, us, title) ==
    (IF idx > 0 THEN <<Link(us[idx], BackLabel), Text(NavSeparator)>> ELSE <<>>)
    \o <<Link(us[1], StartLabel(title))>>
    \o (IF idx < n - 1
           THEN <<Text(NavSeparator), Link(us[idx + 2], NextLabel)>> ELSE <<>>)

\* part_header (lines 579-581)
PartHeader(idx, n) == El("p", <<El("i", <<Text(PartLabel(idx, n))>>)>>)

\* mutant: no rule is put between the chunk's nodes and the navigation
LinkedPartNoRule(ps, idx, us, title) ==
    <<PartHeader(idx, Len(ps))>> \o ps[idx + 1]
    \o <<El("p", NavChildren(idx, Len(ps), us, title))>>

\* new_part of chunk idx (lines 576-604)
LinkedPart(ps, idx, us, title) ==
    <<PartHeader(idx, Len(ps))>> \o ps[idx + 1]
    \o <<Hr, El("p", NavChildren(idx, Len(ps), us, title))>>

add_navigation_links(ps, us, title) ==
    IF Len(ps) <= 1 THEN ps
    ELSE [k \in 1..Len(ps) |-> LinkedPart(ps, k - 1, us, title)]

----------------------------------------------------------------------------
(* Publish orchestrator: cmd_publish, and the Telegraph service behind
   create_page / edit_page / api_request *)

\* MAX_CONTENT_SIZE (line 37)
MAX_CONTENT_SIZE == 64 * 1024

\* args.title
Title == "T"

\* part_title (lines 711, 735), idx counted from 0
PartTitle(idx) ==
    IF idx > 0 THEN Title \o " (chast' " \o ToString(idx + 1) \o ")" ELSE Title

\* f"https://telegra.ph/{page['path']}" (line 728)
Url(path) == "https://telegra.ph/" \o path

\* the paths the service gives to new pages
PathPool == {"T-11-01", "T-11-01-2", "T-11-01-3", "T-11-01-4"}

\* the "error" of a failed api_request (lines 87-96): the service answered
\* ok = false, the request failed (connection, HTTP status, timeout), or the
\* answer was not JSON
ApiErrors ==
    { "Telegraph API error: CONTENT_TOO_BIG",
      "Request failed: timeout",
      "Invalid JSON response: Expecting value" }

\* the top-level nodes of the published Documents: a rule, a block of
\* BigTextLen characters, two of which do not fit one page together, and a
\* heading that fills a page but for some seventy bytes
PublishPool ==
    { Hr,
      El("p", <<TextTimes("a", BigTextLen)>>),
      El("h3", <<TextTimes("b", MAX_CONTENT_SIZE - 100)>>) }

PublishDocuments == UNION { [1..n -> PublishPool] : n \in 0..MaxDocNodes }

\* f"Failed to create part {part_i + 1}: {result.get('error')}" (line 723), as
\* the pieces the f-string joins
CreateFailedMessage(idx, error) == <<"Failed to create part ", ToString(idx + 1), ": ", error>>

\* mutant: a failed create does not end the run
AfterCreateNoAbort(success, idx, n) == IF idx + 1 < n THEN "create" ELSE "link"

\* mutant: the linker is entered after the first page that was created
AfterCreateLinkEarly(success, idx, n) ==
    IF ~success THEN "exit" ELSE "link"

\* where cmd_publish goes after the create_page call of chunk idx of n
\* (lines 720-729): sys.exit(1) on failure, else the next chunk, else line 732
AfterCreate(success, idx, n) ==
    IF ~success THEN "exit" ELSE IF idx + 1 < n THEN "create" ELSE "link"

\* mutant: the new URL is put in front of the list
CollectUrlInFront(us, path) == <<Url(path)>> \o us

\* urls.append (line 728)
CollectUrl(us, path) == Append(us, Url(path))

\* a createPage / editPage request as the service sees it
Call(method, path, title, c, ok, answer) ==
    [method |-> method, path |-> path, title |-> title, content |-> c,
     ok |-> ok, answer |-> answer]

\* the page the service holds at path, after an editPage that succeeded
EditPageAt(ps, path, title, c) ==
    [k \in 1..Len(ps) |->
        IF ps[k].path = path THEN [path |-> path, title |-> title, content |-> c]
        ELSE ps[k]]

UsedPaths == { pages[k].path : k \in 1..Len(pages) }

PubIdle ==
    /\ token = "" /\ file_state = "ok" /\ pc = "idle" /\ part_i = 0
    /\ urls = <<>> /\ paths = <<>> /\ parts_with_nav = <<>>
    /\ pages = <<>> /\ calls = <<>> /\ stdout = <<>> /\ exit_code = -1

\* cmd_publish is entered: the token may be missing, the file may be missing
\* or unreadable; content is what markdown_to_nodes returns for the file
PubInit ==
    /\ token \in {"", "tok"}
    /\ file_state \in {"ok", "missing", "unreadable"}
    /\ IF token # "" /\ file_state = "ok"
          THEN content \in PublishDocuments
          ELSE content = <<>>
    /\ max_size = MAX_CONTENT_SIZE
    /\ parts = <<>>
    /\ sp_pc = "idle"
    /\ pc = "start"
    /\ part_i = 0
    /\ urls = <<>>
    /\ paths = <<>>
    /\ parts_with_nav = <<>>
    /\ pages = <<>>
    /\ calls = <<>>
    /\ stdout = <<>>
    /\ exit_code = -1

\* mutant: an empty Document is published like any other
EmptyContentNever(c) == FALSE

\* "if not content" (line 675)
EmptyContent(c) == c = <<>>

\* mutant: a single chunk goes through the placeholder loop too
AfterSplitAlwaysLoop(n) == "create"

\* "if len(parts) == 1" (line 683): the single page, or the placeholder loop
AfterSplit(n) == IF n = 1 THEN "single" ELSE "create"

\* print an error object and sys.exit(1)
FailWith(error) ==
    /\ stdout' = Append(stdout, [success |-> FALSE, error |-> error])
    /\ exit_code' = 1
    /\ pc' = "exit"

\* lines 650-683: token, file, conversion, partition
PublishStart ==
    /\ pc = "start"
    /\ IF token = ""
          THEN FailWith(<<"No Telegraph token. Run 'create-account' first or provide --token">>)
               /\ UNCHANGED parts
       ELSE IF file_state = "missing"
          THEN FailWith(<<"File not found: ", "doc.md">>) /\ UNCHANGED parts
       ELSE IF file_state = "unreadable"
          THEN FailWith(<<"Error reading file: ", "Permission denied">>) /\ UNCHANGED parts
       ELSE IF EmptyContent(content)
          THEN FailWith(<<"Empty content after conversion">>) /\ UNCHANGED parts
       ELSE /\ parts' = split_content_for_publishing(content, MAX_CONTENT_SIZE)
            /\ pc' = AfterSplit(Len(parts'))
            /\ UNCHANGED <<stdout, exit_code>>
    /\ UNCHANGED <<token, file_state, content, part_i, urls, paths, parts_with_nav, pages, calls>>
    /\ UNCHANGED pubOthers

\* lines 684-703: the single page; the service creates it or the call fails
PublishSingle ==
    /\ pc = "single"
    /\ \/ \E path \in PathPool \ UsedPaths :
            /\ pages' = Append(pages, [path |-> path, title |-> Title, content |-> parts[1]])
            /\ calls' = Append(calls, Call("createPage", "", Title, parts[1], TRUE, path))
            /\ stdout' = Append(stdout, [success |-> TRUE, url |-> Url(path), path |-> path,
                                         title |-> Title, views |-> 0])
            /\ exit_code' = 0
       \/ \E error \in ApiErrors :
            /\ calls' = Append(calls, Call("createPage", "", Title, parts[1], FALSE, error))
            /\ stdout' = Append(stdout, [success |-> FALSE, error |-> <<error>>])
            /\ exit_code' = 1
            /\ UNCHANGED pages
    /\ pc' = "exit"
    /\ UNCHANGED <<token, file_state, content, parts, part_i, urls, paths, parts_with_nav>>
    /\ UNCHANGED pubOthers

\* one iteration of the placeholder loop (lines 710-729)
CreatePlaceholder ==
    /\ pc = "create"
    /\ part_i < Len(parts)
    /\ \/ \E path \in PathPool \ UsedPaths :
            /\ pages' = Append(pages, [path |-> path, title |-> PartTitle(part_i),
                                       content |-> parts[part_i + 1]])
            /\ calls' = Append(calls, Call("createPage", "", PartTitle(part_i), parts[part_i + 1],
                                           TRUE, path))
            /\ urls' = CollectUrl(urls, path)
            /\ paths' = Append(paths, path)
            /\ pc' = AfterCreate(TRUE, part_i, Len(parts))
            /\ part_i' = IF pc' = "link" THEN 0 ELSE part_i + 1
            /\ UNCHANGED <<stdout, exit_code>>
       \/ \E error \in ApiErrors :
            /\ calls' = Append(calls, Call("createPage", "", PartTitle(part_i), parts[part_i + 1],
                                           FALSE, error))
            /\ stdout' = Append(stdout, [success |-> FALSE,
                                         error |-> CreateFailedMessage(part_i, error)])
            /\ pc' = AfterCreate(FALSE, part_i, Len(parts))
            /\ exit_code' = IF pc' = "exit" THEN 1 ELSE exit_code
            /\ part_i' = IF pc' = "link" THEN 0 ELSE part_i + 1
            /\ UNCHANGED <<pages, urls, paths>>
    /\ UNCHANGED <<token, file_state, content, parts, parts_with_nav>>
    /\ UNCHANGED pubOthers

\* line 732
Relink ==
    /\ pc = "link"
    /\ parts_with_nav' = add_navigation_links(parts, urls, Title)
    /\ pc' = "edit"
    /\ part_i' = 0
    /\ UNCHANGED <<token, file_state, content, parts, urls, paths, pages, calls,
                   stdout, exit_code>>
    /\ UNCHANGED pubOthers

\* zip(paths, parts_with_nav) (line 734)
ZipLen == IF Len(paths) < Len(parts_with_nav) THEN Len(paths) ELSE Len(parts_with_nav)

\* one iteration of the edit loop (lines 734-743): the value edit_page
\* returns is not kept
EditPart ==
    /\ pc = "edit"
    /\ part_i < ZipLen
    /\ LET path == paths[part_i + 1]
           part == parts_with_nav[part_i + 1]
       IN \/ /\ pages' = EditPageAt(pages, path, PartTitle(part_i), part)
             /\ calls' = Append(calls, Call("editPage", path, PartTitle(part_i), part, TRUE, path))
          \/ \E error \in ApiErrors :
             /\ calls' = Append(calls, Call("editPage", path, PartTitle(part_i), part, FALSE, error))
             /\ UNCHANGED pages
    /\ part_i' = part_i + 1
    /\ UNCHANGED <<token, file_state, content, parts, pc, urls, paths, parts_with_nav,
                   stdout, exit_code>>
    /\ UNCHANGED pubOthers

\* lines 745-750, and the return of cmd_publish
PublishReport ==
    /\ pc = "edit"
    /\ part_i = ZipLen
    /\ stdout' = Append(stdout, [success |-> TRUE, parts |-> Len(parts), urls |-> urls,
                                 main_url |-> urls[1]])
    /\ exit_code' = 0
    /\ pc' = "exit"
    /\ UNCHANGED <<token, file_state, content, parts, part_i, urls, paths, parts_with_nav,
                   pages, calls>>
    /\ UNCHANGED pubOthers

PubNext ==
    \/ PublishStart
    \/ PublishSingle
    \/ CreatePlaceholder
    \/ Relink
    \/ EditPart
    \/ PublishReport

----------------------------------------------------------------------------
(* Block classifier and Document assembler: convert, _process_block and
   the handlers of the block kinds *)

\* s.split(c)
RECURSIVE SplitOn(_, _)

SplitOnAt(s, c, i) ==
    IF i = 0 THEN <<s>>
    ELSE <<SubSeq(s, 1, i - 1)>> \o SplitOn(SubSeq(s, i + 1, Len(s)), c)

SplitOn(s, c) == SplitOnAt(s, c, FirstIdx(s, 1, c))

\* sep.join(ls)
RECURSIVE JoinWith(_, _)
JoinWith(ls, sep) ==
    IF ls = <<>> THEN <<>>
    ELSE IF Len(ls) = 1 THEN ls[1]
    ELSE ls[1] \o sep \o JoinWith(Tail(ls), sep)

\* [f(x) for x in ls] with f = str.strip
StripAll(ls) == [n \in 1..Len(ls) |-> Strip(ls[n])]

\* the pattern class \d
Digits == {"0", "1", "2", "3", "4", "5", "6", "7", "8", "9"}

\* the pattern class \s on one character
IsSpace(c) == c \in Whitespace \cup {"\n"}

\* "not block.strip()" (line 205)
BlankBlock(block) == \A n \in 1..Len(block) : IsSpace(block[n])

\* first_line.startswith of three backticks or of three tildes (line 257)
StartsWithFence(t) ==
    StartsWith(t, Rep(Backtick, 3)) \/ StartsWith(t, Rep("~", 3))

\* re.match(r'^[-*_]{3,}$', first_line) (line 267)
RuleLine(t) == Len(t) >= 3 /\ \A n \in 1..Len(t) : t[n] \in {"-", "*", "_"}

\* re.match(r'^[\-\*\+]\s', t)
BulletMarker(t) == Len(t) >= 2 /\ t[1] \in {"-", "*", "+"} /\ IsSpace(t[2])

\* length of the run of digits at the start of t
RECURSIVE DigitRun(_)
DigitRun(t) == IF t # <<>> /\ Head(t) \in Digits THEN 1 + DigitRun(Tail(t)) ELSE 0

\* re.match(r'^\d+\.\s', t)
NumberMarker(t) ==
    /\ DigitRun(t) >= 1
    /\ Len(t) >= DigitRun(t) + 2
    /\ t[DigitRun(t) + 1] = "."
    /\ IsSpace(t[DigitRun(t) + 2])

\* the list test of lines 277 and 340
ListMarker(t) == BulletMarker(t) \/ NumberMarker(t)

\* the match of r'^(#{1,6})\s+(.+)$' on the stripped first line (line 292):
\* one to six '#', then whitespace, then at least one more character
HeadingMatch(t) ==
    /\ RunLen(t, "#") \in 1..6
    /\ Len(t) >= RunLen(t, "#") + 2
    /\ IsSpace(t[RunLen(t, "#") + 1])

\* _process_heading (lines 290-299): the nodes it appends
ProcessHeading(t) ==
    IF HeadingMatch(t)
       THEN <<El(IF RunLen(t, "#") <= 2 THEN "h3" ELSE "h4",
                 ParseInline(Strip(SubSeq(t, RunLen(t, "#") + 1, Len(t)))))>>
       ELSE <<>>

\* lines 305-308: the fence lines are taken off
DropOpeningFence(ls) == IF StartsWithFence(Strip(ls[1])) THEN Tail(ls) ELSE ls

DropClosingFence(ls) ==
    IF ls # <<>> /\ StartsWithFence(Strip(ls[Len(ls)]))
       THEN SubSeq(ls, 1, Len(ls) - 1) ELSE ls

\* lines 310-312
PreOf(code_text) == IF code_text # <<>> THEN <<El("pre", <<Text(code_text)>>)>> ELSE <<>>

\* _process_code_block (lines 301-312)
ProcessCodeBlock(block) ==
    PreOf(JoinLines(DropClosingFence(DropOpeningFence(SplitOn(block, "\n")))))

\* re.sub(r'^>\s?', '', line) (line 320)
DropQuoteMark(line) ==
    IF line # <<>> /\ line[1] = ">"
       THEN IF Len(line) >= 2 /\ IsSpace(line[2])
               THEN SubSeq(line, 3, Len(line)) ELSE Tail(line)
       ELSE line

\* _process_blockquote (lines 314-325)
ProcessBlockquote(block) ==
    <<El("blockquote",
         ParseInline(Strip(JoinWith(
             [n \in 1..Len(SplitOn(block, "\n")) |-> DropQuoteMark(SplitOn(block, "\n")[n])],
             <<" ">>))))>>

\* the two re.sub of lines 344-345, one after the other
DropNumberMarker(t) ==
    IF NumberMarker(t) THEN SubSeq(t, DigitRun(t) + 3, Len(t)) ELSE t

DropListMarker(t) ==
    DropNumberMarker(IF BulletMarker(t) THEN SubSeq(t, 3, Len(t)) ELSE t)

\* the item still open, closed (lines 341-342, 351-352)
CloseItem(st) ==
    IF st.current_item # <<>>
       THEN Append(st.items, JoinWith(st.current_item, <<" ">>)) ELSE st.items

\* one iteration of the loop of lines 338-349 on the stripped line t
ListStep(st, t) ==
    IF ListMarker(t)
       THEN [items |-> CloseItem(st), current_item |-> <<DropListMarker(t)>>]
       ELSE [items |-> st.items, current_item |-> Append(st.current_item, t)]

RECURSIVE ListLoop(_, _)
ListLoop(st, ls) ==
    IF ls = <<>> THEN st ELSE ListLoop(ListStep(st, Strip(Head(ls))), Tail(ls))

\* lines 355-358
ListItems(items) == [n \in 1..Len(items) |-> El("li", ParseInline(items[n]))]

\* _process_list (lines 327-360)
ProcessList(block) ==
    <<El(IF NumberMarker(Strip(SplitOn(block, "\n")[1])) THEN "ol" ELSE "ul",
         ListItems(CloseItem(ListLoop([items |-> <<>>, current_item |-> <<>>],
                                      SplitOn(block, "\n")))))>>

\* lines 396-400: the pipes at both ends are taken off
DropLeadingPipe(t) == IF t # <<>> /\ t[1] = "|" THEN Tail(t) ELSE t

DropTrailingPipe(t) ==
    IF t # <<>> /\ t[Len(t)] = "|" THEN SubSeq(t, 1, Len(t) - 1) ELSE t

\* _parse_table_row (lines 393-403)
ParseTableRow(line) ==
    StripAll(SplitOn(DropTrailingPipe(DropLeadingPipe(Strip(line))), "|"))

\* length of the run of characters of [\s\-:] at the start of t
RECURSIVE SeparatorRun(_)
SeparatorRun(t) ==
    IF t # <<>> /\ (IsSpace(Head(t)) \/ Head(t) \in {"-", ":"})
       THEN 1 + SeparatorRun(Tail(t)) ELSE 0

\* re.match(r'^\|?[\s\-:]+\|', line) (line 284)
TableSeparator(line) ==
    /\ SeparatorRun(DropLeadingPipe(line)) >= 1
    /\ CharAt(DropLeadingPipe(line), SeparatorRun(DropLeadingPipe(line)) + 1) = "|"

\* the rows after the separator that are not blank (lines 371-373)
RECURSIVE DataRows(_)
DataRows(ls) ==
    IF ls = <<>> THEN <<>>
    ELSE (IF Strip(Head(ls)) # <<>> THEN <<ParseTableRow(Head(ls))>> ELSE <<>>)
         \o DataRows(Tail(ls))

\* lines 376-381: header_cells is never empty, str.split returns one str or more
TableHeader(cells) ==
    IF cells # <<>>
       THEN <<El("p", <<El("b", <<Text(JoinWith(cells, <<" ", "|", " ">>))>>)>>)>>
       ELSE <<>>

\* lines 384-389
TableRows(rows) ==
    IF rows # <<>>
       THEN <<El("ul", [n \in 1..Len(rows) |->
                          El("li", ParseInline(JoinWith(rows[n], <<" ", "|", " ">>)))])>>
       ELSE <<>>

\* _process_table (lines 362-389)
ProcessTable(block) ==
    TableHeader(ParseTableRow(SplitOn(block, "\n")[1]))
    \o TableRows(DataRows(SubSeq(SplitOn(block, "\n"), 3, Len(SplitOn(block, "\n")))))

\* mutant: the inline nodes of the text are appended without a paragraph
ParagraphOfBare(text) == IF text = <<>> THEN <<>> ELSE ParseInline(text)

\* lines 412-415 on the joined and stripped text
ParagraphOf(text) == IF text = <<>> THEN <<>> ELSE <<El("p", ParseInline(text))>>

\* _process_paragraph (lines 405-415)
ProcessParagraph(block) ==
    ParagraphOf(Strip(JoinWith(StripAll(SplitOn(block, "\n")), <<" ">>)))

\* the table test of lines 282-284
IsTable(ls) ==
    /\ \E n \in 1..Len(Strip(ls[1])) : Strip(ls[1])[n] = "|"
    /\ Len(ls) > 1
    /\ TableSeparator(ls[2])

\* mutant: the table test comes before the blockquote and list tests
ProcessBlockTableEarly(block) ==
    IF StartsWithFence(Strip(SplitOn(block, "\n")[1])) THEN ProcessCodeBlock(block)
    ELSE IF StartsWith(Strip(SplitOn(block, "\n")[1]), <<"#">>)
        THEN ProcessHeading(Strip(SplitOn(block, "\n")[1]))
    ELSE IF RuleLine(Strip(SplitOn(block, "\n")[1])) THEN <<Hr>>
    ELSE IF IsTable(SplitOn(block, "\n")) THEN ProcessTable(block)
    ELSE IF StartsWith(Strip(SplitOn(block, "\n")[1]), <<">">>) THEN ProcessBlockquote(block)
    ELSE IF ListMarker(Strip(SplitOn(block, "\n")[1])) THEN ProcessList(block)
    ELSE ProcessParagraph(block)

\* _process_block (lines 251-288): the nodes the block appends to self.nodes
ProcessBlock(block) ==
    IF StartsWithFence(Strip(SplitOn(block, "\n")[1])) THEN ProcessCodeBlock(block)
    ELSE IF StartsWith(Strip(SplitOn(block, "\n")[1]), <<"#">>)
        THEN ProcessHeading(Strip(SplitOn(block, "\n")[1]))
    ELSE IF RuleLine(Strip(SplitOn(block, "\n")[1])) THEN <<Hr>>
    ELSE IF StartsWith(Strip(SplitOn(block, "\n")[1]), <<">">>) THEN ProcessBlockquote(block)
    ELSE IF ListMarker(Strip(SplitOn(block, "\n")[1])) THEN ProcessList(block)
    ELSE IF IsTable(SplitOn(block, "\n")) THEN ProcessTable(block)
    ELSE ProcessParagraph(block)

\* _split_blocks as a function of the lines: the loop, then lines 246-249
RECURSIVE SplitLoop(_, _)
SplitLoop(st, ls) ==
    IF ls = <<>> THEN st ELSE SplitLoop(SplitStep(st, Head(ls)), Tail(ls))

SplitFlush(st) ==
    IF st.current_block # <<>>
       THEN Append(st.blocks, JoinLines(st.current_block)) ELSE st.blocks

SplitBlocks(ls) == SplitFlush(SplitLoop(SplitState(<<>>, <<>>, FALSE, <<>>), ls))

\* mutant: the nodes of a block are put in front of those of the blocks before
AppendNodesInFront(ns, new) == new \o ns

\* self.nodes.append, for the nodes one block gives
AppendNodes(ns, new) == ns \o new

\* the lines of the markdown texts convert is run on
MdLinePool ==
    { <<>>,
      <<"#", "t", "a", "g">>,
      <<"#", " ", "h">>,
      Rep("#", 7) \o <<" ", "h">>,
      <<"a">>,
      <<"-", " ", "a">>,
      <<"1", ".", " ", "b">>,
      <<">", " ", "q">>,
      <<"-", "-", "-">>,
      Rep(Backtick, 3),
      <<"c", "|", "d">>,
      <<"-", "|", "-">>,
      <<">", " ", "-", " ", "x">> }

\* '# Title\n\nHello **world**.\n\n- a\n- b\n', split at its line ends
TitleHelloList ==
    << <<"#", " ", "T", "i", "t", "l", "e">>,
       <<>>,
       <<"H", "e", "l", "l", "o", " ", "*", "*", "w", "o", "r", "l", "d", "*", "*", ".">>,
       <<>>,
       <<"-", " ", "a">>,
       <<"-", " ", "b">>,
       <<>> >>

\* blocks whose first line has a list marker or a quote mark and a pipe, and
\* whose second line is a table separator
MdSamples ==
    { TitleHelloList,
      << <<"-", " ", "c", "|", "d">>, <<"-", "|", "-">> >>,
      << <<">", " ", "c", "|", "d">>, <<"-", "|", "-">> >> }

MdTexts == MdSamples \cup UNION { [1..n -> MdLinePool] : n \in 1..MaxMdLines }

CvIdle ==
    /\ md_lines = <<>> /\ cv_blocks = <<>> /\ cv_i = 0 /\ nodes = <<>> /\ cv_pc = "idle"

\* entry of convert (line 195); md_lines are the lines of the text after the
\* line ends have been made "\n" (line 198)
CvInit ==
    /\ md_lines \in MdTexts
    /\ cv_blocks = <<>>
    /\ cv_i = 0
    /\ nodes = <<>>
    /\ cv_pc = "split"

\* line 201
ConvertSplit ==
    /\ cv_pc = "split"
    /\ cv_blocks' = SplitBlocks(md_lines)
    /\ cv_pc' = "blocks"
    /\ UNCHANGED <<md_lines, cv_i, nodes>>
    /\ UNCHANGED cvOthers

\* one iteration of "for block in blocks" (lines 203-206)
ConvertBlock ==
    /\ cv_pc = "blocks"
    /\ cv_i < Len(cv_blocks)
    /\ nodes' = IF BlankBlock(cv_blocks[cv_i + 1])
                   THEN nodes
                   ELSE AppendNodes(nodes, ProcessBlock(cv_blocks[cv_i + 1]))
    /\ cv_i' = cv_i + 1
    /\ UNCHANGED <<md_lines, cv_blocks, cv_pc>>
    /\ UNCHANGED cvOthers

\* line 208
ConvertReturn ==
    /\ cv_pc = "blocks"
    /\ cv_i = Len(cv_blocks)
    /\ cv_pc' = "done"
    /\ UNCHANGED <<md_lines, cv_blocks, cv_i, nodes>>
    /\ UNCHANGED cvOthers

CvNext == ConvertSplit \/ ConvertBlock \/ ConvertReturn

----------------------------------------------------------------------------
(* Callers of the converter: threads that call markdown_to_nodes, or convert
   again on the converter they made; list objects are kept apart from their
   contents so that two names of one list are seen *)

Threads == {1, 2}

\* the markdown texts of the calls: '# h\n\na', '- a'
CallTexts ==
    { << <<"#", " ", "h">>, <<>>, <<"a">> >>,
      << <<"-", " ", "a">> >> }

\* mutant: the list self.nodes is emptied in place
ClearedList(ls, old) == [lists |-> [ls EXCEPT ![old] = <<>>], id |-> old]

\* "self.nodes = []" (line 195): a new, empty list object; the list self.nodes
\* named before is left as it is
NewList(ls, old) == [lists |-> Append(ls, <<>>), id |-> Len(ls) + 1]

\* the calls of convert made so far
CallsMade == callers[1].made + callers[2].made

NoCaller == [pc |-> "idle", self |-> 0, markdown |-> <<>>, blocks |-> <<>>, i |-> 0, made |-> 0]

NoCalls ==
    /\ lists = <<>>
    /\ converters = <<>>
    /\ callers = [t \in Threads |-> NoCaller]
    /\ returned = {}

\* markdown_to_nodes (lines 516-519) up to the entry of convert: a new
\* converter, whose __init__ (line 191) gives it a new list
MarkdownToNodes(t) ==
    /\ callers[t].pc = "idle"
    /\ CallsMade < MaxCalls
    /\ \E md \in CallTexts :
          callers' = [callers EXCEPT ![t] =
                         [pc |-> "enter", self |-> Len(converters) + 1, markdown |-> md,
                          blocks |-> <<>>, i |-> 0, made |-> callers[t].made + 1]]
    /\ lists' = Append(lists, <<>>)
    /\ converters' = Append(converters, [nodes |-> Len(lists) + 1])
    /\ UNCHANGED returned
    /\ UNCHANGED callOthers

\* convert is called once more on the converter the thread has made
ConvertAgain(t) ==
    /\ callers[t].pc = "idle"
    /\ callers[t].self # 0
    /\ CallsMade < MaxCalls
    /\ \E md \in CallTexts :
          callers' = [callers EXCEPT ![t] =
                         [pc |-> "enter", self |-> callers[t].self, markdown |-> md,
                          blocks |-> <<>>, i |-> 0, made |-> callers[t].made + 1]]
    /\ UNCHANGED <<lists, converters, returned>>
    /\ UNCHANGED callOthers

\* lines 195-201: self.nodes is bound to a new list, the text is split
ConvertEnter(t) ==
    /\ callers[t].pc = "enter"
    /\ lists' = NewList(lists, converters[callers[t].self].nodes).lists
    /\ converters' = [converters EXCEPT ![callers[t].self].nodes =
                         NewList(lists, converters[callers[t].self].nodes).id]
    /\ callers' = [callers EXCEPT ![t].pc = "blocks",
                                  ![t].blocks = SplitBlocks(callers[t].markdown)]
    /\ UNCHANGED returned
    /\ UNCHANGED callOthers

\* one iteration of "for block in blocks" (lines 203-206): the handlers
\* append to the list self.nodes names
ConvertIteration(t) ==
    /\ callers[t].pc = "blocks"
    /\ callers[t].i < Len(callers[t].blocks)
    /\ lists' = [lists EXCEPT ![converters[callers[t].self].nodes] =
                    IF BlankBlock(callers[t].blocks[callers[t].i + 1])
                       THEN @
                       ELSE AppendNodes(@, ProcessBlock(callers[t].blocks[callers[t].i + 1]))]
    /\ callers' = [callers EXCEPT ![t].i = @ + 1]
    /\ UNCHANGED <<converters, returned>>
    /\ UNCHANGED callOthers

\* line 208: the caller is given the list self.nodes names
ConvertGivesNodes(t) ==
    /\ callers[t].pc = "blocks"
    /\ callers[t].i = Len(callers[t].blocks)
    /\ returned' = returned \cup {[by |-> t, self |-> callers[t].self,
                                    markdown |-> callers[t].markdown,
                                    list |-> converters[callers[t].self].nodes]}
    /\ callers' = [callers EXCEPT ![t].pc = "idle"]
    /\ UNCHANGED <<lists, converters>>
    /\ UNCHANGED callOthers

CallNext ==
    \E t \in Threads :
        \/ MarkdownToNodes(t)
        \/ ConvertAgain(t)
        \/ ConvertEnter(t)
        \/ ConvertIteration(t)
        \/ ConvertGivesNodes(t)

----------------------------------------------------------------------------
(* Specifications: one per operation, the other operations idle *)

\* _split_blocks on every line sequence
SplitBlocksInit == SegInit /\ PartIdle /\ InlIdle /\ PubIdle /\ CvIdle /\ NoCalls

SpecSplitBlocks == SplitBlocksInit /\ [][SegNext]_vars

\* split_content_for_publishing on every Document and budget
PartitionInit == SegIdle /\ PartInit /\ InlIdle /\ PubIdle /\ CvIdle /\ NoCalls

SpecPartition == PartitionInit /\ [][PartNext]_vars

\* cmd_publish on every Document, with every outcome of every service call
Init == SegIdle /\ InlIdle /\ PubInit /\ CvIdle /\ NoCalls

Spec == Init /\ [][PubNext]_vars

\* convert on every markdown text
ConvertInit == SegIdle /\ PartIdle /\ InlIdle /\ PubIdle /\ CvInit /\ NoCalls

SpecConvert == ConvertInit /\ [][CvNext]_vars

\* _parse_inline on every text
InlineInit == SegIdle /\ PartIdle /\ InlInit /\ PubIdle /\ CvIdle /\ NoCalls

SpecInline == InlineInit /\ [][InlNext]_vars

\* two threads that call markdown_to_nodes and convert, in any interleaving
CallsInit == SegIdle /\ PartIdle /\ InlIdle /\ PubIdle /\ CvIdle /\ NoCalls

SpecCalls == CallsInit /\ [][CallNext]_vars

----------------------------------------------------------------------------
(* C1 *)

\* The fence character open after lines 1..k, <<>> when no fence is open:
\* a fence opens at a line (outside any fence) that FenceMatch accepts and
\* closes at the next line made only of three or more of its character.
RECURSIVE OpenFenceAfter(_, _)
OpenFenceAfter(ls, k) ==
    IF k = 0 THEN <<>>
    ELSE LET before == OpenFenceAfter(ls, k - 1)
             t == Strip(ls[k])
         IN IF before = <<>>
               THEN IF FenceMatch(t) THEN <<t[1]>> ELSE <<>>
               ELSE IF Len(t) >= 3 /\ t = Rep(before[1], Len(t)) THEN <<>> ELSE before

\* line o opens a fence and line c is the fence line closing it
FenceRegion(ls, o, c) ==
    /\ o < c
    /\ OpenFenceAfter(ls, o - 1) = <<>>
    /\ OpenFenceAfter(ls, o) # <<>>
    /\ \A k \in o..(c - 1) : OpenFenceAfter(ls, k) # <<>>
    /\ OpenFenceAfter(ls, c) = <<>>

----------------------------------------------------------------------------
(* C2, C3, C4 *)

\* estimate_content_size([node]) <= budget
FitsAlone(node, budget) == estimate_content_size(<<node>>) <= budget

RECURSIVE Concat(_)
Concat(ps) == IF ps = <<>> THEN <<>> ELSE Head(ps) \o Concat(Tail(ps))

\* C2: when every top-level node fits the budget alone, every chunk returned
\* has serialized size (estimate_content_size) at most max_size.
C2_ChunksWithinBudget ==
    (sp_pc = "done" /\ \A i \in 1..Len(content) : FitsAlone(content[i], max_size)) =>
        \A k \in 1..Len(parts) : estimate_content_size(parts[k]) <= max_size

\* C3: the chunks returned, concatenated in order, are the Document's
\* top-level node sequence.
C3_ConcatIsContent == sp_pc = "done" => Concat(parts) = content

\* a Document that had to be split, into chunks of more than one node
C3_Witness ==
    /\ sp_pc = "done"
    /\ Len(parts) >= 2
    /\ \E k \in 1..Len(parts) : Len(parts[k]) >= 2
    /\ \E i, j \in 1..Len(content) : content[i] # content[j]

\* the case of C4: two nodes of equal size, each fitting alone, total size
\* budget + 1
C4_Case ==
    /\ Len(content) = 2
    /\ JsonSize(content[1]) = JsonSize(content[2])
    /\ FitsAlone(content[1], max_size)
    /\ FitsAlone(content[2], max_size)
    /\ estimate_content_size(content) = max_size + 1

\* C4: such a Document is split into exactly two chunks of one node each,
\* each of serialized size at most the budget.
C4_TwoEqualNodes ==
    (sp_pc = "done" /\ C4_Case) =>
        /\ Len(parts) = 2
        /\ parts[1] = <<content[1]>>
        /\ parts[2] = <<content[2]>>
        /\ \A k \in 1..2 : estimate_content_size(parts[k]) <= max_size

C4_Witness == sp_pc = "done" /\ C4_Case /\ Len(parts) = 2

----------------------------------------------------------------------------
(* C10 *)

BoldItalicInput == <<"*", "*", "a", " ", "*", "b", "*", " ", "c", "*", "*">>

\* C10: _parse_inline('**a *b* c**') returns exactly one node, a bold element
\* whose children are 'a ', an italic element holding 'b', and ' c'.
C10_BoldHoldsItalic ==
    (pi_pc = "done" /\ inline_text = BoldItalicInput) =>
        result = << El("b", << Text(<<"a", " ">>),
                               El("i", <<Text(<<"b">>)>>),
                               Text(<<" ", "c">>) >>) >>

----------------------------------------------------------------------------
(* C5 - C9: the publish orchestrator, under Spec *)

\* a publish that split the Document into two chunks or more
MultiChunk == Len(parts) >= 2

\* the last node of a chunk
LastNode(part) == part[Len(part)]

\* the navigation paragraph of output chunk idx (counted from 0) holds: the
\* back link to URL[idx-1] and a separator, only when idx > 0; the start link
\* to URL[0] labelled with the title; a separator and the next link to
\* URL[idx+1], only when idx < n-1; in this order and nothing else
NavParagraphRight(nav, idx, n, us) ==
    LET ch == nav.children
        off == IF idx > 0 THEN 2 ELSE 0
    IN /\ nav.tag = "p"
       /\ Len(ch) = off + 1 + (IF idx < n - 1 THEN 2 ELSE 0)
       /\ idx > 0 => ch[1] = Link(us[idx], BackLabel) /\ ch[2] = Text(NavSeparator)
       /\ ch[off + 1] = Link(us[1], StartLabel(Title))
       /\ idx < n - 1 =>
             ch[off + 2] = Text(NavSeparator) /\ ch[off + 3] = Link(us[idx + 2], NextLabel)
       /\ idx = 0 => \A c \in 1..Len(ch) : ch[c] # Link(us[1], BackLabel)
       /\ idx = n - 1 => \A c \in 1..Len(ch) : ch[c].tag = "a" => ch[c].children # <<Text(NextLabel)>>

\* C5: once the Navigation Linker has run on N >= 2 chunks and their N URLs,
\* the last node of every output chunk is the navigation paragraph described
\* above: chunk 0 has no back link, chunk N-1 no next link, every chunk the
\* start link.
C5_NavigationParagraph ==
    parts_with_nav # <<>> =>
        /\ Len(parts_with_nav) = Len(parts)
        /\ \A k \in 1..Len(parts_with_nav) :
              NavParagraphRight(LastNode(parts_with_nav[k]), k - 1, Len(parts), urls)

\* the linker has run on three chunks: the middle one has both links
C5_Witness == Len(parts_with_nav) = 3 /\ Len(urls) = 3

\* the request of index c is a createPage that failed
FailedCreate(c) == calls[c].method = "createPage" /\ ~calls[c].ok

\* C6: in a multi-chunk publish, once a createPage call has failed the run
\* has ended with exit status 1 and a report whose success flag is false; no
\* request follows the failed one (no createPage for a later chunk, no
\* editPage at all), the linker has not run, and the pages created for the
\* chunks before it are live with their placeholder content.
C6_CreateFailureAborts ==
    \A c \in 1..Len(calls) :
        (MultiChunk /\ FailedCreate(c)) =>
            /\ pc = "exit" /\ exit_code = 1
            /\ Len(stdout) = 1 /\ stdout[1].success = FALSE
            /\ Len(calls) = c
            /\ \A j \in 1..Len(calls) : calls[j].method # "editPage"
            /\ parts_with_nav = <<>>
            /\ Len(pages) = c - 1
            /\ \A j \in 1..(c - 1) :
                  /\ pages[j].path = calls[j].answer
                  /\ pages[j].content = parts[j]

\* the createPage of a chunk after the first has failed
C6_Witness == \E c \in 2..Len(calls) : MultiChunk /\ FailedCreate(c) /\ pc = "exit"

\* the pieces of text a printed report holds in field f
Pieces(report, f) ==
    IF f \in DOMAIN report THEN { report[f][n] : n \in 1..Len(report[f]) } ELSE {}

\* the report gives the value v
Mentions(report, v) == v \in Pieces(report, "error") \cup Pieces(report, "urls")
                                \cup Pieces(report, "paths")

\* C7: when the createPage of chunk c-1 (the c-th part) fails in a
\* multi-chunk publish, the report printed names part c and tells which
\* parts succeeded: it gives the path or URL of each page created before.
C7_FailureReportNamesCreated ==
    \A c \in 1..Len(calls) :
        (MultiChunk /\ FailedCreate(c) /\ pc = "exit") =>
            LET report == stdout[Len(stdout)]
            IN /\ Mentions(report, ToString(c))
               /\ \A j \in 1..(c - 1) :
                     Mentions(report, pages[j].path) \/ Mentions(report, Url(pages[j].path))

\* the URL the createPage call of chunk k-1 returned
CreatedUrls == [k \in 1..Len(parts) |-> Url(calls[k].answer)]

\* C8: a multi-chunk publish in which every createPage succeeded has issued,
\* when it ends, the createPage calls of the chunks in order and then exactly
\* one editPage per chunk, with the path its createPage returned and with
\* its relinked content; URL[k] of the list given to the linker is the URL
\* of the page created for chunk k.
C8_OneEditPerChunk ==
    (pc = "exit" /\ MultiChunk /\ exit_code = 0) =>
        LET n == Len(parts)
        IN /\ Len(calls) = 2 * n
           /\ \A k \in 1..n :
                 /\ calls[k].method = "createPage" /\ calls[k].ok
                 /\ calls[k].content = parts[k]
                 /\ calls[n + k].method = "editPage"
                 /\ calls[n + k].path = calls[k].answer
                 /\ calls[n + k].content = add_navigation_links(parts, CreatedUrls, Title)[k]
           /\ urls = CreatedUrls

C8_Witness == pc = "exit" /\ Len(parts) = 3 /\ exit_code = 0 /\ Len(calls) = 6

\* the keys of the success report of lines 745-750
SuccessReportKeys == {"success", "parts", "urls", "main_url"}

\* the request of index c is an editPage that failed
FailedEdit(c) == calls[c].method = "editPage" /\ ~calls[c].ok

\* C9: when a multi-chunk publish in which some editPage call failed ends,
\* every chunk has had its editPage call, every edit that succeeded is in
\* place, the report lists the outcome of every part's edit, and its success
\* flag is not true.
C9_EditFailuresReported ==
    (pc = "exit" /\ MultiChunk /\ \E c \in 1..Len(calls) : FailedEdit(c)) =>
        LET n == Len(parts)
            report == stdout[Len(stdout)]
        IN /\ Len(calls) = 2 * n
           /\ \A k \in 1..n : calls[n + k].ok => pages[k].content = parts_with_nav[k]
           /\ DOMAIN report \ SuccessReportKeys # {}
           /\ report.success = FALSE

----------------------------------------------------------------------------
(* C11, C12: the inline tokenizer, under SpecInline *)

\* the characters that start or end a markup form
MarkupChars == {"*", "_", "[", "]", "!", "(", ")", Backtick}

\* a text without any markup character
NoMarkup(text) == \A n \in 1..Len(text) : text[n] \notin MarkupChars

\* C11: the list _parse_inline returns has at least one element and no two
\* adjacent strings; the empty string gives [''], and a string without any
\* markup gives the list holding that string alone.
C11_InlineResultShape ==
    pi_pc = "done" =>
        /\ Len(result) >= 1
        /\ \A n \in 1..(Len(result) - 1) :
              ~(result[n].tag = "#text" /\ result[n + 1].tag = "#text")
        /\ inline_text = <<>> => result = <<Text(<<>>)>>
        /\ NoMarkup(inline_text) => result = <<Text(inline_text)>>

\* _parse_inline('') has returned
C11_Witness == pi_pc = "done" /\ inline_text = <<>> /\ result = <<Text(<<>>)>>

\* '![alt](url)'
ImageForm(alt, url) == <<"!", "[">> \o alt \o <<"]", "(">> \o url \o <<")">>

ImageAlts == { <<>>, <<"a">>, <<"*", "a", "*">> }

ImageUrls == { <<"u">> }

\* C12: _parse_inline('![alt](url)') returns one image node with src = url,
\* with alt = alt exactly when alt is not empty, and without children.
C12_ImageLeaf ==
    \A alt \in ImageAlts, url \in ImageUrls :
        (pi_pc = "done" /\ inline_text = ImageForm(alt, url)) =>
            /\ Len(result) = 1
            /\ result[1].tag = "img"
            /\ "children" \notin DOMAIN result[1]
            /\ result[1].attrs = IF alt = <<>> THEN [src |-> url]
                                               ELSE [src |-> url, alt |-> alt]

\* the image with an empty alt has been tokenized
C12_Witness ==
    /\ pi_pc = "done" /\ inline_text = ImageForm(<<>>, <<"u">>)
    /\ result = <<[tag |-> "img", attrs |-> [src |-> <<"u">>]]>>

----------------------------------------------------------------------------
(* C14 - C16: failure paths and the single-chunk path of cmd_publish,
   under Spec *)

\* the run has met a failure: no token, file not read, empty Document, or a
\* createPage / editPage call that failed
PublishFailed ==
    \/ token = ""
    \/ file_state # "ok"
    \/ content = <<>>
    \/ \E c \in 1..Len(calls) : ~calls[c].ok

\* C14: a publish that met a failure ends with a printed result whose
\* success flag is false and which carries an error text (the text names
\* the kind of error and gives the message).
C14_FailureIsStructured ==
    (pc = "exit" /\ PublishFailed) =>
        /\ stdout # <<>>
        /\ stdout[Len(stdout)].success = FALSE
        /\ "error" \in DOMAIN stdout[Len(stdout)]
        /\ stdout[Len(stdout)].error # <<>>

\* C15: when the partitioner returned one chunk, the run sends createPage
\* requests only, at most one; when it has ended it has sent exactly one,
\* with that chunk as content, the linker has not run, and the result is a
\* success exactly when that call succeeded.
C15_SingleChunkOneCreate ==
    Len(parts) = 1 =>
        /\ Len(calls) <= 1
        /\ \A c \in 1..Len(calls) : calls[c].method = "createPage"
        /\ parts_with_nav = <<>>
        /\ pc = "exit" =>
              /\ Len(calls) = 1
              /\ calls[1].content = parts[1]
              /\ stdout[Len(stdout)].success = calls[1].ok
              /\ (exit_code = 0) = calls[1].ok

\* a single-chunk publish has ended in success
C15_Witness ==
    /\ pc = "exit" /\ Len(parts) = 1 /\ Len(calls) = 1
    /\ calls[1].ok /\ exit_code = 0

\* C16: with a token and a readable file, an empty Document ends the run
\* right after the conversion with the conversion error, exit status 1, and
\* no request sent.
C16_EmptyDocumentFails ==
    (token # "" /\ file_state = "ok" /\ content = <<>> /\ pc # "start") =>
        /\ pc = "exit"
        /\ calls = <<>>
        /\ pages = <<>>
        /\ exit_code = 1
        /\ stdout = <<[success |-> FALSE, error |-> <<"Empty content after conversion">>]>>

\* the run on an empty Document has ended
C16_Witness ==
    /\ token # "" /\ file_state = "ok" /\ content = <<>>
    /\ pc = "exit" /\ calls = <<>> /\ exit_code = 1

----------------------------------------------------------------------------
(* C17: the partitioner on a node larger than the budget, under
   SpecPartition *)

----------------------------------------------------------------------------
(* C18, C19: closing and opening a fence, under SpecSplitBlocks *)

\* the line the next iteration of the loop handles
NextLine == lines[line_no + 1]

\* the length of the fence run of the line that opened the open fence: that
\* line is the first of current_block
OpeningRun == RunLen(Strip(current_block[1]), code_fence[1])

\* C18: an iteration that leaves the inside-fence state has handled a line
\* made only of the character of the opening fence, at least as many times
\* as in the opening fence.
C18_ClosingFenceLongEnough ==
    [][ (in_code_block /\ ~in_code_block') =>
            /\ Strip(NextLine) = StrMul(code_fence, Len(Strip(NextLine)))
            /\ Len(Strip(NextLine)) >= OpeningRun ]_vars

\* the line begins with three or more of one fence character
BeginsWithFenceRun(line) ==
    /\ line # <<>>
    /\ line[1] \in FenceChars
    /\ RunLen(line, line[1]) >= 3

\* C19: an iteration that starts outside a fence on a line beginning with
\* three or more fence characters ends the current block, starts a new
\* block with that line, and enters the inside-fence state.
C19_FenceRunOpensBlock ==
    [][ (line_no' = line_no + 1 /\ ~in_code_block /\ BeginsWithFenceRun(NextLine)) =>
            /\ in_code_block'
            /\ current_block' = <<NextLine>>
            /\ blocks' = IF current_block # <<>>
                            THEN Append(blocks, JoinLines(current_block))
                            ELSE blocks ]_vars

----------------------------------------------------------------------------
(* C13, C20: the Document assembler and the block classifier, under
   SpecConvert *)

\* the nodes of the blocks bs, block after block
RECURSIVE NodesOfBlocks(_)
NodesOfBlocks(bs) ==
    IF bs = <<>> THEN <<>>
    ELSE (IF BlankBlock(Head(bs)) THEN <<>> ELSE ProcessBlock(Head(bs)))
         \o NodesOfBlocks(Tail(bs))

\* what C13 gives for '# Title\n\nHello **world**.\n\n- a\n- b\n'
TitleHelloListNodes ==
    << El("h3", <<Text(<<"T", "i", "t", "l", "e">>)>>),
       El("p", << Text(<<"H", "e", "l", "l", "o", " ">>),
                  El("b", <<Text(<<"w", "o", "r", "l", "d">>)>>),
                  Text(<<".">>) >>),
       El("ul", << El("li", <<Text(<<"a">>)>>),
                   El("li", <<Text(<<"b">>)>>) >>) >>

\* C13: the nodes convert returns are the nodes of the blocks in source
\* order, each block's nodes before those of the next block; the text
\* '# Title\n\nHello **world**.\n\n- a\n- b\n' gives exactly a heading h3
\* 'Title', a paragraph 'Hello ', bold 'world', '.', and an unordered list
\* of the items 'a' and 'b'.
C13_BlocksInSourceOrder ==
    cv_pc = "done" =>
        /\ nodes = NodesOfBlocks(cv_blocks)
        /\ md_lines = TitleHelloList => nodes = TitleHelloListNodes

\* convert has returned the three nodes of the text of C13
C13_Witness ==
    cv_pc = "done" /\ md_lines = TitleHelloList /\ Len(nodes) = 3 /\ Len(cv_blocks) = 3

\* the first line of the block, stripped
FirstLine(block) == Strip(SplitOn(block, "\n")[1])

\* the block matches none of the classifier rules 1 to 6: fence marker,
\* heading pattern, rule line, quote mark, list marker, table
NoRuleApplies(block) ==
    /\ ~StartsWithFence(FirstLine(block))
    /\ ~HeadingMatch(FirstLine(block))
    /\ ~RuleLine(FirstLine(block))
    /\ ~StartsWith(FirstLine(block), <<">">>)
    /\ ~ListMarker(FirstLine(block))
    /\ ~IsTable(SplitOn(block, "\n"))

\* the text of the paragraph of a block: its lines joined by single spaces
ParagraphText(block) == Strip(JoinWith(StripAll(SplitOn(block, "\n")), <<" ">>))

\* C20: the iteration of convert on a block that matches none of the rules
\* 1 to 6 appends one paragraph node holding the tokenized text of the block,
\* and appends nothing only when that text is empty.
C20_UnclassifiedIsParagraph ==
    [][ (cv_i' = cv_i + 1 /\ NoRuleApplies(cv_blocks[cv_i + 1])) =>
            nodes' = IF ParagraphText(cv_blocks[cv_i + 1]) = <<>>
                        THEN nodes
                        ELSE Append(nodes, El("p", ParseInline(ParagraphText(cv_blocks[cv_i + 1])))) ]_vars

----------------------------------------------------------------------------
(* C21: the precedence of the classifier rules, under SpecConvert *)

\* the block convert handles next, and the nodes that iteration appends
NextBlock == cv_blocks[cv_i + 1]

Appended(new) == nodes' = nodes \o new

\* the number of the first rule the block matches, in the order fence (1),
\* heading mark (2), rule line (3), quote mark (4), list marker (5),
\* table (6), and 7 for the paragraph
FirstRule(block) ==
    IF StartsWithFence(FirstLine(block)) THEN 1
    ELSE IF StartsWith(FirstLine(block), <<"#">>) THEN 2
    ELSE IF RuleLine(FirstLine(block)) THEN 3
    ELSE IF StartsWith(FirstLine(block), <<">">>) THEN 4
    ELSE IF ListMarker(FirstLine(block)) THEN 5
    ELSE IF IsTable(SplitOn(block, "\n")) THEN 6
    ELSE 7

\* what the handler of rule r gives for the block
HandlerOutput(r, block) ==
    CASE r = 1 -> ProcessCodeBlock(block)
      [] r = 2 -> ProcessHeading(FirstLine(block))
      [] r = 3 -> <<Hr>>
      [] r = 4 -> ProcessBlockquote(block)
      [] r = 5 -> ProcessList(block)
      [] r = 6 -> ProcessTable(block)
      [] r = 7 -> ProcessParagraph(block)

----------------------------------------------------------------------------
(* C22: links, under SpecInline *)

\* '[**b**](u)'
LinkWithBold == <<"[", "*", "*", "b", "*", "*", "]", "(", "u", ")">>

\* C22: _parse_inline('[**b**](u)') returns one link element with href u
\* whose children are the tokenization of '**b**': a bold element holding
\* 'b'.
C22_LinkTextTokenized ==
    (pi_pc = "done" /\ inline_text = LinkWithBold) =>
        result = <<[tag |-> "a", attrs |-> [href |-> <<"u">>],
                    children |-> <<El("b", <<Text(<<"b">>)>>)>>]>>

----------------------------------------------------------------------------
(* C23: the chunks the linker returns, under Spec *)

\* the nodes of a chunk between its first node and its last two
Inner(part) == SubSeq(part, 2, Len(part) - 2)

\* C23: once the linker has run on N >= 2 chunks it has returned N chunks;
\* output chunk k is one paragraph holding one italic element with the
\* label of part k of N, then the nodes of input chunk k as they were and in
\* their order, then a horizontal rule, then one paragraph, so it is three
\* nodes longer than the input chunk; and the input chunks are still what
\* the partitioner returned.
C23_LinkedChunkLayout ==
    (MultiChunk /\ pc \in {"edit", "exit"} /\ parts_with_nav # <<>>) =>
        /\ Len(parts_with_nav) = Len(parts)
        /\ parts = split_content_for_publishing(content, MAX_CONTENT_SIZE)
        /\ \A k \in 1..Len(parts) :
              LET out == parts_with_nav[k]
              IN /\ Len(out) = Len(parts[k]) + 3
                 /\ out[1] = El("p", <<El("i", <<Text("Chast' " \o ToString(k) \o " iz "
                                                      \o ToString(Len(parts)))>>)>>)
                 /\ Inner(out) = parts[k]
                 /\ out[Len(out) - 1] = Hr
                 /\ out[Len(out)].tag = "p"

\* the linker has run on two chunks, the first of them of two nodes
C23_Witness ==
    /\ pc = "edit"
    /\ Len(parts) = 2
    /\ Len(parts_with_nav) = 2
    /\ Len(parts[1]) = 2
    /\ Len(parts_with_nav[1]) = 5

----------------------------------------------------------------------------
(* C24: the phases of a multi-chunk publish, under Spec *)

\* the calls of the run that are createPage calls that succeeded
CreatedSoFar == { c \in 1..Len(calls) : calls[c].method = "createPage" /\ calls[c].ok }

\* C24: in a multi-chunk publish the c-th call, for c up to the number of
\* chunks, is the createPage of chunk c; the linker has not run and no
\* editPage has been issued unless the createPage of every chunk succeeded;
\* and the success report comes after the editPage calls of all chunks.
C24_PhasesInOrder ==
    MultiChunk =>
        LET n == Len(parts)
        IN /\ \A c \in 1..Len(calls) :
                 /\ c <= n => /\ calls[c].method = "createPage"
                              /\ calls[c].content = parts[c]
                              /\ calls[c].title = PartTitle(c - 1)
                 /\ c > n => calls[c].method = "editPage"
           /\ ( \/ pc \in {"link", "edit"}
                \/ parts_with_nav # <<>>
                \/ \E c \in 1..Len(calls) : calls[c].method = "editPage" )
                 => CreatedSoFar = 1..n
           /\ (pc = "exit" /\ exit_code = 0) => Len(calls) = 2 * n

\* the linker is about to run after three createPage calls that succeeded
C24_Witness ==
    /\ pc = "link"
    /\ Len(parts) = 3
    /\ CreatedSoFar = 1..3
    /\ parts_with_nav = <<>>

----------------------------------------------------------------------------
(* C25: top-level nodes are block-level, under SpecConvert *)

BlockTags == {"p", "h3", "h4", "pre", "blockquote", "ol", "ul", "hr"}

BlockLevel(node) == node.tag \in BlockTags

AllBlockLevel(part) == \A n \in 1..Len(part) : BlockLevel(part[n])

\* the URLs of n pages
PageUrls(n) == [k \in 1..n |-> Url("T-11-01")]

\* the chunks of a Document for a budget, after partitioning and linking
LinkedChunks(c, budget) ==
    add_navigation_links(split_content_for_publishing(c, budget),
                         PageUrls(Len(split_content_for_publishing(c, budget))), Title)

\* C25: every top-level node of the Document convert returns is a block
\* element (p, h3, h4, pre, blockquote, ol, ul, hr), never a text or an
\* inline element, and so is every top-level node of every chunk the
\* partitioner and the linker make of it, be the budget one byte, MaxBudget
\* bytes or MAX_CONTENT_SIZE.
C25_TopLevelIsBlock ==
    cv_pc = "done" =>
        /\ AllBlockLevel(nodes)
        /\ \A budget \in {1, MaxBudget, MAX_CONTENT_SIZE} :
              \A k \in 1..Len(LinkedChunks(nodes, budget)) :
                 AllBlockLevel(LinkedChunks(nodes, budget)[k])

\* convert has returned a paragraph with an inline element and a second
\* node, which a budget of one byte puts into two linked chunks
C25_Witness ==
    /\ cv_pc = "done"
    /\ Len(nodes) = 2
    /\ nodes[1].tag = "p"
    /\ \E n \in 1..Len(nodes[1].children) : nodes[1].children[n].tag = "b"
    /\ Len(LinkedChunks(nodes, 1)) = 2
    /\ Len(LinkedChunks(nodes, 1)[1]) = 4

----------------------------------------------------------------------------
(* C26: calls of the converter do not disturb one another, under SpecCalls *)

\* what convert gives for the text on a converter nobody else has used
ConvertAlone(md) == NodesOfBlocks(SplitBlocks(md))

\* C26: whatever the interleaving of the calls of two threads, the list a
\* call of convert has returned holds, and goes on holding, what convert
\* gives for its text alone: a call is not disturbed by the calls of the
\* other thread, a later call on the same converter gives what a new
\* converter gives, and it leaves the list of the earlier call as it was.
C26_CallsAreIndependent ==
    \A r \in returned : lists[r.list] = ConvertAlone(r.markdown)

\* one thread has called convert twice on one converter, for two texts, and
\* holds two lists; the other thread is in the middle of a call
C26_Witness ==
    \E a, b \in returned :
        /\ a.by = b.by
        /\ a.self = b.self
        /\ a.markdown # b.markdown
        /\ a.list # b.list
        /\ \E t \in Threads :
              /\ t # a.by
              /\ callers[t].pc = "blocks"
              /\ callers[t].i = 1
              /\ Len(callers[t].blocks) = 2

----------------------------------------------------------------------------
(* C27: the size of the content given to editPage, under Spec *)

\* the editPage calls of the run, as indices of calls
EditCalls == { c \in 1..Len(calls) : calls[c].method = "editPage" }

\* C27: in a multi-chunk publish, the content of the editPage call of a
\* chunk serializes to at most MAX_CONTENT_SIZE bytes whenever the chunk the
\* partitioner made was within that budget.
C27_LinkedChunkWithinLimit ==
    MultiChunk =>
        \A c \in EditCalls :
            estimate_content_size(parts[c - Len(parts)]) <= MAX_CONTENT_SIZE
                => estimate_content_size(calls[c].content) <= MAX_CONTENT_SIZE

----------------------------------------------------------------------------
(* C28: the segmenter loses and invents no line, under SpecSplitBlocks *)

NotBlank(line) == Strip(line) # <<>>

\* the lines of the blocks bs, block after block
RECURSIVE LinesOfBlocks(_)
LinesOfBlocks(bs) ==
    IF bs = <<>> THEN <<>> ELSE SplitOn(Head(bs), "\n") \o LinesOfBlocks(Tail(bs))

\* a block that begins with an opening fence line
FenceBlock(block) == FenceMatch(FirstLine(block))

\* the line that opened the fence still open after the last line of ls
OpeningOfLast(ls) ==
    CHOOSE o \in 1..Len(ls) :
        /\ OpenFenceAfter(ls, o - 1) = <<>>
        /\ \A k \in o..Len(ls) : OpenFenceAfter(ls, k) # <<>>

----------------------------------------------------------------------------
(* C29: no line of a block is dropped by its handler, under SpecConvert *)

\* the characters of the texts in the nodes ns, at any depth
RECURSIVE TextChars(_)
TextChars(ns) ==
    UNION { IF ns[n].tag = "#text"
               THEN { ns[n].text[c] : c \in 1..Len(ns[n].text) }
               ELSE IF "children" \in DOMAIN ns[n] THEN TextChars(ns[n].children) ELSE {}
            : n \in 1..Len(ns) }

\* the letters and digits of a line
WordCharsOf(line) == { line[c] : c \in 1..Len(line) } \cap WordChars

\* the nodes the iteration of convert has appended
NewNodes == SubSeq(nodes', Len(nodes) + 1, Len(nodes'))

\* C29: when convert handles a block whose first line is a heading ('#'s,
\* whitespace, text), the lines of the block after the first are not
\* dropped: the letters and digits of each of them are in the text of the
\* nodes the block gives.
C29_HeadingKeepsLaterLines ==
    [][ (cv_i' = cv_i + 1 /\ HeadingMatch(FirstLine(NextBlock))) =>
            \A n \in 2..Len(SplitOn(NextBlock, "\n")) :
                WordCharsOf(SplitOn(NextBlock, "\n")[n]) \subseteq TextChars(NewNodes) ]_vars

----------------------------------------------------------------------------
(* C30: _parse_inline terminates, under SpecInline *)

\* what is left of the call: nothing once it has returned, the clean-up
\* once the loop is left, and before that the rest still to be scanned
StepsLeft ==
    CASE pi_pc = "done" -> 0
      [] pi_pc = "clean" -> 1
      [] pi_pc = "scan" -> Len(remaining) + 2
      [] OTHER -> 0

\* the pattern the iteration on remaining takes, 0 when nothing matches, and
\* its match
TakenPattern == EarliestPattern(SearchAll(remaining))

TakenMatch == SearchAll(remaining)[TakenPattern]

\* C30: every iteration of the loop of _parse_inline either leaves the loop
\* or takes a match of at least one character and goes on with a strictly
\* shorter rest; the text given to the nested call for a bold or italic
\* match is strictly shorter than the text of the iteration; so every step
\* of the call brings it nearer to its return: StepsLeft, which is 0 only
\* when the call has returned, goes down at every step.
C30_ParseInlineTerminates ==
    [][ /\ StepsLeft' < StepsLeft
        /\ (pi_pc = "scan" /\ remaining # <<>>) =>
              /\ pi_pc' = "clean" \/ Len(remaining') < Len(remaining)
              /\ TakenPattern = 0 => pi_pc' = "clean"
              /\ TakenPattern # 0 =>
                    /\ TakenMatch.end >= TakenMatch.start
                    /\ Len(remaining') = Len(remaining) - TakenMatch.end
                    /\ Handlers[TakenPattern] \in {"bold", "italic"} =>
                          Len(TakenMatch.g1) < Len(remaining) ]_vars

\* the call on '**a _b_ c**' has returned a bold element that holds an
\* italic element: an iteration with a match and two nested calls
C30_Witness ==
    /\ pi_pc = "done"
    /\ inline_text = <<"*", "*", "a", " ", "_", "b", "_", " ", "c", "*", "*">>
    /\ Len(result) = 1
    /\ result[1].tag = "b"
    /\ \E n \in 1..Len(result[1].children) : result[1].children[n].tag = "i"

============================================================================
